---------------------------- MODULE Spec2Model ----------------------------
(***************************************************************************)
(* Model of the interview bot (monforje/interview-bot-complete):           *)
(*   - internal/telegram/handler.go : RateLimiter, Handler (session        *)
(*     registry, command dispatch, interview state machine)                *)
(*   - internal/telegram bot.go     : StartPolling (one goroutine/update)  *)
(*   - internal/config              : validateConfig                       *)
(*   - internal/extractor/service.go, internal/interviewer/openai.go       *)
(*                                                                         *)
(* The specifications share the variables:                                 *)
(*   Spec        updates are handled one at a time (each handler runs to   *)
(*               its end before the next update is taken);                 *)
(*   SpecInput   as Spec, for one block and the texts that exercise        *)
(*               validateUserInput, the replies of the last handler kept;  *)
(*   SpecConc    updates are handled by concurrent goroutines that         *)
(*               interleave at the handler's outbound calls (SendMessage,  *)
(*               CreateSummary, SaveResult);                               *)
(*   SpecRL      the RateLimiter alone, for a quota and a window drawn     *)
(*               from small sets;                                          *)
(*   SpecSweep   as Spec over more than a day, with the session cleanup;   *)
(*   SpecExtract one run of extractor.Service.ExtractProfile at a time;    *)
(*   SpecLock    SpecConc with the cleanup pass under sessionsMutex;       *)
(*   SpecCache   the extraction tasks of several interviews side by side;  *)
(*   SpecHang    SpecConc with its scheduling (liveness);                  *)
(*   SpecLive    a user who starts and answers, with fairness (liveness).  *)
(***************************************************************************)
EXTENDS Integers, Sequences, FiniteSets, TLC

VARIABLES
    cfg,        \* *config.Config after Load/validateConfig (read-only)
    now,        \* the clock read by time.Now(), in seconds
    rl,         \* Handler.rateLimiter: [limit, window, requests]
    sessions,   \* Handler.sessions: user -> <<>> (absent) or <<UserSession>>
    nextID,     \* number of interview ids handed out by uuid.New()
    stored,     \* interview id -> number of successful storage.SaveResult
    tasks,      \* user -> the processProfileExtraction tasks started, in order
    gor,        \* goroutine slot -> the handler running in it (locals)
    crashed,    \* an unrecovered panic has terminated the process
    calls,      \* SpecRL only: the IsAllowed calls made so far
    xrun,       \* the run of extractor.Service.ExtractProfile in progress
    cache,      \* extractor.Service.lastProfileJSON: id -> <<>> or <<json>>
    sweep,      \* the cleanup goroutine: its position and what it has read
    xtask       \* SpecCache only: interview id -> run of ExtractProfile in its task

vars == <<cfg, now, rl, sessions, nextID, stored, tasks, gor, crashed, calls,
          xrun, cache, sweep, xtask>>

----------------------------------------------------------------------------
(* Bounds of the model *)

MaxBlocks == 2
MaxQPB == 2
MaxFollowup == 1
MaxInterviews == 2
MaxOver == 1
MaxBurst == 4
MaxTime == 60
MaxLimit == 3
MaxWindow == 3
MaxCalls == 5
MaxClock == 6
MaxSweepTime == 86401

(* Program constants *)

RateLimit == 10
RateWindow == 60
MaxTextLen == 4000
SpamMinLen == 10
SessionTTL == 86400
MaxFillAttempts == 2

Users == {1}
RLUsers == {1, 2}
Goroutines == {1, 2}

----------------------------------------------------------------------------
(* Texts.  A text is kept run-length encoded: a sequence of runs <<c, n>>,  *)
(* n >= 1 copies of the one-byte character c, adjacent runs having          *)
(* different characters.  len, strings.Count, strings.TrimSpace and         *)
(* strings.HasPrefix are computed on the runs.                              *)

RECURSIVE Len8(_)
Len8(text) ==
    IF text = <<>> THEN 0 ELSE Head(text)[2] + Len8(Tail(text))

RECURSIVE Count8(_, _)
Count8(text, c) ==
    IF text = <<>> THEN 0
    ELSE (IF Head(text)[1] = c THEN Head(text)[2] ELSE 0) + Count8(Tail(text), c)

FirstByte(text) == Head(text)[1]

IsSpace(c) == c \in {" ", "\t", "\n"}

RECURSIVE TrimLeft(_)
TrimLeft(text) ==
    IF text # <<>> /\ IsSpace(Head(text)[1]) THEN TrimLeft(Tail(text)) ELSE text

RECURSIVE TrimRight(_)
TrimRight(text) ==
    IF text # <<>> /\ IsSpace(text[Len(text)][1])
    THEN TrimRight(SubSeq(text, 1, Len(text) - 1))
    ELSE text

TrimSpace(text) == TrimRight(TrimLeft(text))

HasPrefixSlash(text) == text # <<>> /\ FirstByte(text) = "/"

(* The run-length encoding of a sequence of characters. *)
RECURSIVE Str(_)
Str(chars) ==
    IF chars = <<>> THEN <<>>
    ELSE LET rest == Str(Tail(chars))
         IN  IF rest # <<>> /\ rest[1][1] = Head(chars)
             THEN <<<<Head(chars), rest[1][2] + 1>>>> \o Tail(rest)
             ELSE <<<<Head(chars), 1>>>> \o rest

CmdStart      == Str(<<"/", "s", "t", "a", "r", "t">>)
CmdHelp       == Str(<<"/", "h", "e", "l", "p">>)
CmdStatus     == Str(<<"/", "s", "t", "a", "t", "u", "s">>)
CmdRestart    == Str(<<"/", "r", "e", "s", "t", "a", "r", "t">>)
CmdStop       == Str(<<"/", "s", "t", "o", "p">>)
CmdGetProfile == Str(<<"/", "g", "e", "t", "p", "r", "o", "f", "i", "l", "e">>)
CmdGetSummary == Str(<<"/", "g", "e", "t", "s", "u", "m", "m", "a", "r", "y">>)
CmdUnknown    == Str(<<"/", "x">>)


----------------------------------------------------------------------------
(* config.Load / validateConfig.  A candidate configuration is what the     *)
(* YAML file may hold; Load returns it only when validateConfig accepts it.  *)

MakeBlock(id, nq, label) ==
    [ID |-> id, Name |-> label, Title |-> label, ContextPrompt |-> label,
     Questions |-> [j \in 1..nq |-> <<id, j>>]]

CandidateConfigs ==
    { [InterviewConfig |->
          [TotalBlocks |-> n, QuestionsPerBlock |-> q, MaxFollowupQuestions |-> f],
       Blocks |-> [i \in 1..nb |-> MakeBlock(i - 1 + base, nq, label)],
       ProfileFields |-> pf] :
        n \in 0..MaxBlocks, q \in 0..MaxQPB, f \in (-1)..MaxFollowup,
        nb \in 0..MaxBlocks, nq \in 0..MaxQPB, base \in {0, 1},
        label \in {"", "x"}, pf \in {0, 1, 101} }

ValidateConfig(c) ==
    /\ c.InterviewConfig.TotalBlocks > 0
    /\ c.InterviewConfig.QuestionsPerBlock > 0
    /\ c.InterviewConfig.MaxFollowupQuestions >= 0
    /\ Len(c.Blocks) = c.InterviewConfig.TotalBlocks
    /\ c.ProfileFields # 0
    /\ c.ProfileFields <= 100
    /\ \A i \in 1..Len(c.Blocks) :
          /\ c.Blocks[i].ID = i
          /\ c.Blocks[i].Name # ""
          /\ c.Blocks[i].Title # ""
          /\ c.Blocks[i].ContextPrompt # ""
          /\ Len(c.Blocks[i].Questions) = c.InterviewConfig.QuestionsPerBlock

GetTotalBlocks(c) == c.InterviewConfig.TotalBlocks
GetQuestionsPerBlock(c) == c.InterviewConfig.QuestionsPerBlock
GetMaxFollowupQuestions(c) == c.InterviewConfig.MaxFollowupQuestions

----------------------------------------------------------------------------
(* RateLimiter (handler.go).  requests[u] is the slice of admission times;   *)
(* a user without a map entry and a user with an empty slice behave alike.   *)

NewRateLimiter(limit, window, users) ==
    [limit |-> limit, window |-> window, requests |-> [u \in users |-> <<>>]]

InWindow(r, t, x) == t - x < r.window

RECURSIVE Flatten(_, _)
Flatten(f, S) ==
    IF S = {} THEN <<>>
    ELSE LET u == CHOOSE x \in S : TRUE
         IN  f[u] \o Flatten(f, S \ {u})

(* validRequests taken from one list shared by all the users *)
PurgedShared(r, u, t) ==
    SelectSeq(Flatten(r.requests, DOMAIN r.requests), LAMBDA x : InWindow(r, t, x))

Purged(r, u, t) == SelectSeq(r.requests[u], LAMBDA x : InWindow(r, t, x))

(* len(validRequests) > rl.limit in place of >= *)
OverLimitStrict(r, n) == n > r.limit

OverLimit(r, n) == n >= r.limit

(* IsAllowed's return value and the limiter it leaves behind. *)
IsAllowedResult(r, u, t) == ~OverLimit(r, Len(Purged(r, u, t)))

(* IsAllowed recording the call before it decides *)
IsAllowedStateRecording(r, u, t) ==
    [r EXCEPT !.requests[u] = Append(Purged(r, u, t), t)]

IsAllowedState(r, u, t) ==
    [r EXCEPT !.requests[u] =
        IF OverLimit(r, Len(Purged(r, u, t)))
        THEN Purged(r, u, t)
        ELSE Append(Purged(r, u, t), t)]

----------------------------------------------------------------------------
(* validateUserInput (handler.go): "ok", or the error it returns. *)

TooLong(text) == Len8(text) > MaxTextLen

Repeated(text) ==
    /\ Len8(text) > SpamMinLen
    /\ Count8(text, FirstByte(text)) > (Len8(text) * 8) \div 10

ValidateUserInput(text) ==
    IF TooLong(text) THEN "too_long"
    ELSE IF Repeated(text) THEN "repeated"
    ELSE "ok"

----------------------------------------------------------------------------
(* UserSession.  InterviewID 0 is the empty string; Result <<>> is the nil   *)
(* pointer and <<r>> a pointer to r.  Two model fields record what Go's      *)
(* slices share: Shared is the set of Result.Blocks indices whose            *)
(* QuestionsAndAnswers slice has the backing array of CurrentDialogue, and   *)
(* Views[g] is the blockResult local of the handler in goroutine g (taken    *)
(* in finishCurrentBlock), with the same information.                        *)

NoView == [g \in Goroutines |-> <<>>]

NewSession(u, t) ==
    [UserID |-> u, InterviewID |-> 0, CurrentBlock |-> 0, QuestionCount |-> 0,
     State |-> "idle", CurrentDialogue |-> <<>>, CumulativeSummaries |-> <<>>,
     Result |-> <<>>, LastActivity |-> t, Shared |-> {}, Views |-> NoView]

(* A new backing array for CurrentDialogue (a fresh slice, or an append):    *)
(* the slices taken earlier no longer see what is written through it.        *)
Unshare(s) ==
    [s EXCEPT !.Shared = {},
              !.Views = [g \in Goroutines |->
                  IF s.Views[g] = <<>> THEN <<>>
                  ELSE <<[s.Views[g][1] EXCEPT !.shared = FALSE]>>]]

(* resetSession without session.Result = nil *)
ResetSessionKeepingResult(s, t) ==
    [Unshare(s) EXCEPT !.State = "idle", !.CurrentBlock = 0, !.QuestionCount = 0,
                       !.CurrentDialogue = <<>>, !.CumulativeSummaries = <<>>,
                       !.InterviewID = 0, !.LastActivity = t]

ResetSession(s, t) ==
    [Unshare(s) EXCEPT !.State = "idle", !.CurrentBlock = 0, !.QuestionCount = 0,
                       !.CurrentDialogue = <<>>, !.CumulativeSummaries = <<>>,
                       !.Result = <<>>, !.InterviewID = 0, !.LastActivity = t]

SetLastAnswer(qa, answer) ==
    IF qa = <<>> THEN qa ELSE [qa EXCEPT ![Len(qa)].Answer = answer]

(* session.CurrentDialogue[lastIndex].Answer = answer, seen through every    *)
(* slice that shares the array.                                              *)
WriteAnswer(s, answer) ==
    IF Len(s.CurrentDialogue) = 0 THEN s
    ELSE [s EXCEPT
            !.CurrentDialogue = SetLastAnswer(s.CurrentDialogue, answer),
            !.Result =
                IF s.Result = <<>> THEN <<>>
                ELSE <<[s.Result[1] EXCEPT !.Blocks =
                        [i \in 1..Len(s.Result[1].Blocks) |->
                            IF i \in s.Shared
                            THEN [s.Result[1].Blocks[i] EXCEPT
                                    !.QuestionsAndAnswers = SetLastAnswer(@, answer)]
                            ELSE s.Result[1].Blocks[i]]]>>,
            !.Views = [g \in Goroutines |->
                IF s.Views[g] # <<>> /\ s.Views[g][1].shared
                THEN <<[s.Views[g][1] EXCEPT
                          !.QuestionsAndAnswers = SetLastAnswer(@, answer)]>>
                ELSE s.Views[g]]]

----------------------------------------------------------------------------
(* A running handler: m.s is the session it works on, m.g its goroutine,     *)
(* m.pc the outbound call it is waiting in ("done": it has returned,         *)
(* "panic": it has panicked), m.out the messages it has sent, m.newID        *)
(* whether it drew a uuid, m.spawned the extraction tasks it started,        *)
(* m.saved the interview ids it wrote with SaveResult, m.saveID the          *)
(* InterviewID of the result handed to the pending SaveResult.               *)

Say(m, msg) == [m EXCEPT !.out = Append(@, msg)]

Done(m) == [m EXCEPT !.pc = "done", !.s.Views[m.g] = <<>>]

Panic(m) == [m EXCEPT !.pc = "panic"]

ValidBlockIndex(i) == i \in 0..(Len(cfg.Blocks) - 1)

MaxQuestions == GetQuestionsPerBlock(cfg) + GetMaxFollowupQuestions(cfg)

(* completeInterview, up to the call of storage.SaveResult *)
CompleteInterview(m) ==
    IF m.s.Result = <<>> THEN Panic(m)
    ELSE [m EXCEPT !.pc = "complete_save", !.saveID = m.s.Result[1].InterviewID]

(* completeInterview, from SaveResult's return to the first SendMessage *)
CompleteInterviewSaved(m, saveOK) ==
    IF ~saveOK THEN Done(Say(m, "save_error"))
    ELSE Say([m EXCEPT !.saved = Append(@, m.saveID),
                       !.s.State = "completed",
                       !.pc = "complete_msg"], "completed")

(* completeInterview, the rest: go processProfileExtraction (h.extractor is  *)
(* set), completionText                                                      *)
CompleteInterviewTail(m) ==
    LET m1 == [m EXCEPT !.spawned = Append(@, [id |-> m.saveID, running |-> TRUE])]
    IN  IF m.s.Result = <<>> THEN Panic(m1)
        ELSE Done(Say(m1, "completion_text"))

(* finishCurrentBlock, up to its first SendMessage *)
FinishCurrentBlock(m) == Say([m EXCEPT !.pc = "finish_processing"], "processing_block")

(* finishCurrentBlock: block, blockResult, the call of CreateSummary *)
FinishCurrentBlockCapture(m) ==
    IF ~ValidBlockIndex(m.s.CurrentBlock - 1) THEN Panic(m)
    ELSE [m EXCEPT !.pc = "finish_summary",
                   !.s.Views[m.g] =
                       <<[BlockID |-> cfg.Blocks[m.s.CurrentBlock].ID,
                          QuestionsAndAnswers |-> m.s.CurrentDialogue,
                          shared |-> TRUE]>>]

(* finishCurrentBlock, from CreateSummary's return to the next SendMessage *)
FinishCurrentBlockSummary(m, genOK) ==
    IF ~genOK THEN Done(Say(m, "summary_error"))
    ELSE IF m.s.Result = <<>> THEN Panic(m)
    ELSE LET view == m.s.Views[m.g][1]
             r    == m.s.Result[1]
             br   == [BlockID |-> view.BlockID,
                      QuestionsAndAnswers |-> view.QuestionsAndAnswers]
         IN  Say([m EXCEPT
                    !.pc = "finish_done_msg",
                    !.s.Result = <<[r EXCEPT !.Blocks = Append(@, br)]>>,
                    !.s.Shared = IF view.shared
                                 THEN @ \cup {Len(r.Blocks) + 1} ELSE @,
                    !.s.CumulativeSummaries = Append(@, "summary")],
                 "block_done")

(* generateNextQuestion *)
GenerateNextQuestion(m) ==
    IF ~ValidBlockIndex(m.s.CurrentBlock - 1) THEN Panic(m)
    ELSE LET block == cfg.Blocks[m.s.CurrentBlock]
         IN  IF m.s.QuestionCount >= Len(block.Questions)
             THEN FinishCurrentBlock(m)
             ELSE Done(Say([m EXCEPT !.s =
                     [Unshare(m.s) EXCEPT
                        !.CurrentDialogue = Append(@,
                            [Question |-> block.Questions[m.s.QuestionCount + 1],
                             Answer |-> <<>>]),
                        !.State = "waiting_answer"]], "question"))

(* startNextBlock, up to its SendMessage or into completeInterview *)
StartNextBlock(m) ==
    IF m.s.CurrentBlock > GetTotalBlocks(cfg) THEN CompleteInterview(m)
    ELSE IF ~ValidBlockIndex(m.s.CurrentBlock - 1) THEN Panic(m)
    ELSE Say([m EXCEPT !.s = [Unshare(m.s) EXCEPT !.QuestionCount = 0,
                                                  !.CurrentDialogue = <<>>],
                       !.pc = "block_info"], "block_info")

(* finishCurrentBlock, the rest: session.CurrentBlock++, startNextBlock *)
FinishCurrentBlockTail(m) ==
    StartNextBlock([m EXCEPT !.s.CurrentBlock = @ + 1])

(* processUserAnswer without its session.QuestionCount++ *)
ProcessUserAnswerUncounted(m, answer) ==
    LET m1 == [m EXCEPT !.s = WriteAnswer(m.s, answer)]
    IN  IF m1.s.QuestionCount < MaxQuestions
        THEN GenerateNextQuestion(m1)
        ELSE FinishCurrentBlock(m1)

(* processUserAnswer *)
ProcessUserAnswer(m, answer) ==
    LET s1 == WriteAnswer(m.s, answer)
        m1 == [m EXCEPT !.s = [s1 EXCEPT !.QuestionCount = @ + 1]]
    IN  IF m1.s.QuestionCount < MaxQuestions
        THEN GenerateNextQuestion(m1)
        ELSE FinishCurrentBlock(m1)

(* handleUserInput with LastActivity updated before the validation *)
HandleUserInputTouchFirst(m, text, t) ==
    IF m.s.State # "waiting_answer" THEN Done(Say(m, "not_waiting"))
    ELSE IF ValidateUserInput(text) # "ok"
    THEN Done(Say([m EXCEPT !.s.LastActivity = t], ValidateUserInput(text)))
    ELSE ProcessUserAnswer([m EXCEPT !.s.LastActivity = t], text)

(* handleUserInput *)
HandleUserInput(m, text, t) ==
    IF m.s.State # "waiting_answer" THEN Done(Say(m, "not_waiting"))
    ELSE IF ValidateUserInput(text) # "ok"
    THEN Done(Say(m, ValidateUserInput(text)))
    ELSE ProcessUserAnswer([m EXCEPT !.s.LastActivity = t], text)

(* initializeInterview, up to its SendMessage *)
InitializeInterview(m, id, t) ==
    Say([m EXCEPT
           !.s = [ResetSession(m.s, t) EXCEPT
                    !.InterviewID = id, !.State = "interview",
                    !.CurrentBlock = 1, !.QuestionCount = 0, !.LastActivity = t,
                    !.Result = <<[InterviewID |-> id, Timestamp |-> t,
                                  Blocks |-> <<>>]>>],
           !.newID = TRUE,
           !.pc = "init_welcome"], "welcome")

(* handleStatusCommand counting the query as a question *)
HandleStatusCommandCounting(m) ==
    Done(Say([m EXCEPT !.s.QuestionCount = @ + 1], "status"))

(* handleStatusCommand: one message, chosen by session.State *)
HandleStatusCommand(m) == Done(Say(m, "status"))

(* handleStopCommand resetting the session in every state *)
HandleStopCommandUnguarded(m, t) ==
    Done(Say([m EXCEPT !.s = ResetSession(m.s, t)], "stopped"))

(* handleStopCommand *)
HandleStopCommand(m, t) ==
    IF m.s.State = "idle"
    THEN Done(Say(m, "not_running"))
    ELSE Done(Say([m EXCEPT !.s = ResetSession(m.s, t)], "stopped"))

(* handleCommand and the command handlers.  found: the profile file of the  *)
(* interview can be read; genOK: the generator call succeeds.                *)
HandleCommand(m, command, id, t, env) ==
    CASE command = CmdStart ->
            IF m.s.State \in {"interview", "waiting_answer"}
            THEN Done(Say(m, "already_running"))
            ELSE InitializeInterview(m, id, t)
      [] command = CmdHelp -> Done(Say(m, "help"))
      [] command = CmdStatus -> HandleStatusCommand(m)
      [] command = CmdRestart ->
            Done(Say([m EXCEPT !.s = ResetSession(m.s, t)], "restarted"))
      [] command = CmdStop -> HandleStopCommand(m, t)
      [] command = CmdGetProfile ->
            IF m.s.State # "completed" \/ m.s.InterviewID = 0
            THEN Done(Say(m, "profile_unavailable"))
            ELSE IF ~env.found THEN Done(Say(m, "profile_not_found"))
            ELSE Done(Say(m, "profile_json"))
      [] command = CmdGetSummary ->
            IF m.s.State # "completed" \/ m.s.InterviewID = 0
            THEN Done(Say(m, "summary_unavailable"))
            ELSE IF ~env.found THEN Done(Say(m, "profile_not_found"))
            ELSE IF ~env.genOK THEN Done(Say(m, "summary_failed"))
            ELSE Done(Say(m, "profile_summary"))
      [] OTHER -> Done(Say(m, "unknown_command"))

NewHandlerRun(s, g) ==
    [s |-> s, g |-> g, pc |-> "run", out |-> <<>>, newID |-> FALSE,
     spawned |-> <<>>, saved |-> <<>>, saveID |-> 0]

(* HandleUpdate taking every text for an answer while an answer is awaited *)
DispatchAnswerWhileWaiting(s, g, rawText, id, t, env) ==
    LET text == TrimSpace(rawText)
    IN  IF HasPrefixSlash(text) /\ s.State # "waiting_answer"
        THEN HandleCommand(NewHandlerRun(s, g), text, id, t, env)
        ELSE HandleUserInput(NewHandlerRun(s, g), text, t)

(* HandleUpdate after admission and getOrCreateSession, up to the first      *)
(* outbound call after which the handler does more than return.              *)
Dispatch(s, g, rawText, id, t, env) ==
    LET text == TrimSpace(rawText)
    IN  IF HasPrefixSlash(text)
        THEN HandleCommand(NewHandlerRun(s, g), text, id, t, env)
        ELSE HandleUserInput(NewHandlerRun(s, g), text, t)

(* The handler from the return of the outbound call m.pc to the next one. *)
Step(m, env) ==
    CASE m.pc = "init_welcome"      -> StartNextBlock(m)
      [] m.pc = "block_info"        -> GenerateNextQuestion(m)
      [] m.pc = "finish_processing" -> FinishCurrentBlockCapture(m)
      [] m.pc = "finish_summary"    -> FinishCurrentBlockSummary(m, env.genOK)
      [] m.pc = "finish_done_msg"   -> FinishCurrentBlockTail(m)
      [] m.pc = "complete_save"     -> CompleteInterviewSaved(m, env.saveOK)
      [] m.pc = "complete_msg"      -> CompleteInterviewTail(m)

RECURSIVE Run(_, _)
Run(m, env) ==
    IF m.pc \in {"done", "panic"} THEN m ELSE Run(Step(m, env), env)

(* getOrCreateSession without the lookup *)
GetOrCreateSessionFresh(ss, u, t) == [ss EXCEPT ![u] = <<NewSession(u, t)>>]

(* getOrCreateSession setting LastActivity of the session it finds *)
GetOrCreateSessionTouching(ss, u, t) ==
    IF ss[u] # <<>> THEN [ss EXCEPT ![u][1].LastActivity = t]
    ELSE [ss EXCEPT ![u] = <<NewSession(u, t)>>]

(* getOrCreateSession, under sessionsMutex *)
GetOrCreateSession(ss, u, t) ==
    IF ss[u] # <<>> THEN ss ELSE [ss EXCEPT ![u] = <<NewSession(u, t)>>]

----------------------------------------------------------------------------
(* extractor.Service.ExtractProfile (internal/extractor/service.go).  A JSON  *)
(* object is a function from its keys to values, Null the JSON null; a map    *)
(* of Go is [nil, kv], nil for the nil map that json.Unmarshal leaves when    *)
(* the text is the literal null.  A generator response is [kind, kv]: "err"   *)
(* (the call fails), "garbage" (a text that is no JSON object), "null" (the   *)
(* literal null) or "object".  Go ranges over maps in no fixed order, so the  *)
(* list missingFields is kept as a set.                                       *)

Null == 0

SchemaFields == {"f1", "f2"}

MetadataKey == "_metadata"

NilMap == [nil |-> TRUE, kv |-> <<>>]

(* json.Unmarshal into a nil map[string]interface{}: <<>> is the error *)
Unmarshal(resp) ==
    CASE resp.kind = "object" -> <<[nil |-> FALSE, kv |-> resp.kv]>>
      [] resp.kind = "null"   -> <<NilMap>>
      [] OTHER                -> <<>>

(* json.MarshalIndent of a map, and the text parsed back *)
Marshal(kv) == [kind |-> "object", kv |-> kv]

(* the check without the v == nil part *)
MissingFieldsAbsentOnly(formatted) ==
    {f \in SchemaFields : f \notin DOMAIN formatted.kv}

(* _, ok := formatted[field]; !ok || v == nil *)
MissingFields(formatted) ==
    {f \in SchemaFields : f \notin DOMAIN formatted.kv \/ formatted.kv[f] = Null}

(* the merge without its v != nil test *)
MergeWithNulls(formatted, newFields) ==
    [formatted EXCEPT !.kv =
        [k \in DOMAIN formatted.kv \cup DOMAIN newFields |->
            IF k \in DOMAIN newFields THEN newFields[k] ELSE formatted.kv[k]]]

(* for k, v := range newFields { if v != nil { formatted[k] = v } } *)
Merge(formatted, newFields) ==
    LET taken == {k \in DOMAIN newFields : newFields[k] # Null}
    IN  [formatted EXCEPT !.kv =
            [k \in DOMAIN formatted.kv \cup taken |->
                IF k \in taken THEN newFields[k] ELSE formatted.kv[k]]]

(* The merge assigns to an entry of the nil map: a run-time panic. *)
MergePanics(formatted, newFields) ==
    formatted.nil /\ \E k \in DOMAIN newFields : newFields[k] # Null

(* convertToExtractorFormat with the answers cleared in the given result *)
ConvertToExtractorFormatInPlace(result) ==
    [given |-> [result EXCEPT !.Blocks = <<>>],
     copy  |-> [InterviewID |-> result.InterviewID,
                Timestamp |-> result.Timestamp, Blocks |-> result.Blocks]]

(* convertToExtractorFormat: the given result, and the Interview built *)
ConvertToExtractorFormat(result) ==
    [given |-> result,
     copy  |-> [InterviewID |-> result.InterviewID,
                Timestamp |-> result.Timestamp,
                Blocks |-> [i \in 1..Len(result.Blocks) |->
                    [BlockID |-> result.Blocks[i].BlockID,
                     QuestionsAndAnswers |->
                        [j \in 1..Len(result.Blocks[i].QuestionsAndAnswers) |->
                            [Question |-> result.Blocks[i].QuestionsAndAnswers[j].Question,
                             Answer |-> result.Blocks[i].QuestionsAndAnswers[j].Answer]]]]]]

(* The value stored under "_metadata": the metadata of the interview. *)
MetadataOf(interview) == 10 + interview.InterviewID

NoProfileResult ==
    [Success |-> FALSE, Error |-> "", ProfileJSON |-> <<>>, Reported |-> {}]

IdleRun ==
    [pc |-> "idle", id |-> 0, given |-> <<>>, copy |-> <<>>, formatted |-> NilMap,
     missing |-> {}, attempts |-> 0, ncalls |-> 0, result |-> NoProfileResult]

(* return &ProfileResult{Success: false, Error: ...}, err *)
ExtractFails(x, error) ==
    [x EXCEPT !.pc = "done", !.result = [NoProfileResult EXCEPT !.Error = error]]

(* ExtractProfile ending with every schema field in the reported list *)
ExtractFinishAllFields(x) ==
    IF x.missing # {}
    THEN [x EXCEPT !.pc = "done",
                   !.result = [NoProfileResult EXCEPT !.Error = "unfilled",
                                                      !.Reported = SchemaFields]]
    ELSE [x EXCEPT !.pc = "done",
                   !.result = [NoProfileResult EXCEPT
                                  !.Success = TRUE,
                                  !.ProfileJSON = <<Marshal(x.formatted.kv)>>]]

(* ExtractProfile from the end of the fill loop to its return *)
ExtractFinish(x) ==
    IF x.missing # {}
    THEN [x EXCEPT !.pc = "done",
                   !.result = [NoProfileResult EXCEPT !.Error = "unfilled",
                                                      !.Reported = x.missing]]
    ELSE IF x.formatted.nil THEN [x EXCEPT !.pc = "panic"]
    ELSE LET final == [k \in DOMAIN x.formatted.kv \cup {MetadataKey} |->
                          IF k = MetadataKey THEN MetadataOf(x.copy[1])
                          ELSE x.formatted.kv[k]]
         IN  [x EXCEPT !.pc = "done",
                       !.formatted.kv = final,
                       !.result = [NoProfileResult EXCEPT
                                      !.Success = TRUE,
                                      !.ProfileJSON = <<Marshal(final)>>]]

(* for len(missingFields) > 0 && attempts < 2 *)
ExtractLoop(x) ==
    IF x.missing # {} /\ x.attempts < MaxFillAttempts
    THEN [x EXCEPT !.pc = "fill"]
    ELSE ExtractFinish(x)

(* ExtractProfile up to its first generator call *)
ExtractBegin(result) ==
    LET c == ConvertToExtractorFormat(result)
    IN  [IdleRun EXCEPT !.pc = "extract", !.id = result.InterviewID,
                        !.given = <<c.given>>, !.copy = <<c.copy>>]

(* ExtractProfile from the return of a generator call to the next call *)
ExtractStep(x, resp) ==
    LET x1 == [x EXCEPT !.ncalls = @ + 1]
    IN  CASE x.pc = "extract" ->
                IF resp.kind = "err" THEN ExtractFails(x1, "extract_error")
                ELSE [x1 EXCEPT !.pc = "validate"]
          [] x.pc = "validate" ->
                IF resp.kind = "err" THEN ExtractFails(x1, "validate_error")
                ELSE IF Unmarshal(resp) = <<>> THEN ExtractFails(x1, "parse_error")
                ELSE ExtractLoop([x1 EXCEPT
                        !.formatted = Unmarshal(resp)[1],
                        !.missing = MissingFields(Unmarshal(resp)[1])])
          [] x.pc = "fill" ->
                IF resp.kind = "err" THEN ExtractFails(x1, "fill_error")
                ELSE IF Unmarshal(resp) = <<>> THEN ExtractFails(x1, "fill_parse_error")
                ELSE IF MergePanics(x.formatted, Unmarshal(resp)[1].kv)
                THEN [x1 EXCEPT !.pc = "panic"]
                ELSE ExtractLoop([x1 EXCEPT
                        !.formatted = Merge(x.formatted, Unmarshal(resp)[1].kv),
                        !.missing = MissingFields(
                                       Merge(x.formatted, Unmarshal(resp)[1].kv)),
                        !.attempts = @ + 1])

(* the cache entry dropped when the run fails *)
CacheAfterClearing(c, x) ==
    IF x.pc = "done" /\ x.result.Success
    THEN [c EXCEPT ![x.id] = x.result.ProfileJSON]
    ELSE IF x.pc = "done" THEN [c EXCEPT ![x.id] = <<>>]
    ELSE c

(* s.lastProfileJSON[interviewResult.InterviewID] = string(finalJSON) *)
CacheAfter(c, x) ==
    IF x.pc = "done" /\ x.result.Success
    THEN [c EXCEPT ![x.id] = x.result.ProfileJSON]
    ELSE c

----------------------------------------------------------------------------
(* Inbound texts and the outcomes of the collaborators *)

TextPadded   == Str(<<" ", "a", " ">>)
TextSpaces   == <<<<" ", 3>>>>
TextLong     == <<<<"a", 2500>>, <<"b", 2500>>>>
TextOver     == <<<<"a", 2000>>, <<"b", 2001>>>>
TextRepeat   == <<<<"a", 9>>, <<"b", 2>>>>
TextSplit    == <<<<"a", 5>>, <<"b", 2>>, <<"a", 5>>>>
TextDominant == <<<<"b", 1>>, <<"a", 20>>>>

(* Spec and SpecConc: one well-formed answer and the rejected texts. *)
Answers == {TextPadded, TextLong, TextRepeat}

(* SpecInput: the texts that exercise validateUserInput. *)
InputTexts == {TextPadded, TextSpaces, TextLong, TextOver, TextRepeat,
               TextSplit, TextDominant}

Commands == {CmdStart, CmdHelp, CmdStatus, CmdRestart, CmdStop,
             CmdGetProfile, CmdGetSummary, CmdUnknown}

AllOK == [genOK |-> TRUE, saveOK |-> TRUE, found |-> TRUE]

(* The outcomes the handling of a text can depend on. *)
Envs(text) ==
    IF TrimSpace(text) \in {CmdGetProfile, CmdGetSummary}
    THEN [genOK : BOOLEAN, saveOK : {TRUE}, found : BOOLEAN]
    ELSE IF HasPrefixSlash(TrimSpace(text)) THEN {AllOK}
    ELSE [genOK : BOOLEAN, saveOK : BOOLEAN, found : {TRUE}]

Delays == {RateWindow}

IdleSlot == [pc |-> "idle", user |-> 0, out |-> <<>>, saveID |-> 0]

(* The cleanup goroutine outside cleanupInactiveSessions. *)
IdleSweep == [pc |-> "idle", read |-> [u \in Users |-> <<>>]]

Slot(m, u) ==
    [pc |-> m.pc, user |-> u, out |-> m.out, saveID |-> m.saveID]

Occurrences(seq, x) == Cardinality({i \in 1..Len(seq) : seq[i] = x})

(* What a handler (or one step of it) leaves behind, outside its slot. *)
Commit(m, u) ==
    /\ sessions' = [sessions EXCEPT ![u] = <<m.s>>]
    /\ nextID' = IF m.newID THEN nextID + 1 ELSE nextID
    /\ stored' = [i \in DOMAIN stored |-> stored[i] + Occurrences(m.saved, i)]
    /\ tasks' = [tasks EXCEPT ![u] = @ \o m.spawned]
    /\ crashed' = (m.pc = "panic")

(* The bounds on the behaviours: the ids handed out, and how far a counter  *)
(* may run past the block's budget.                                          *)
Bounded(u, text) ==
    /\ TrimSpace(text) = CmdStart => nextID < MaxInterviews
    /\ (~HasPrefixSlash(TrimSpace(text)) /\ sessions[u] # <<>>)
          => sessions[u][1].QuestionCount < MaxQuestions + MaxOver

(* HandleUpdate for an update that is handled alone: the handler in          *)
(* goroutine 1, from the rate limiter to its return.                         *)
Handled(u, text, env) ==
    Run(Dispatch(GetOrCreateSession(sessions, u, now)[u][1], 1, text,
                 nextID + 1, now, env), env)

(* HandleUpdate with the session resolved before the admission *)
RateLimitedResolved(u) ==
    /\ sessions' = GetOrCreateSession(sessions, u, now)
    /\ UNCHANGED <<nextID, stored, tasks, crashed>>

(* HandleUpdate when IsAllowed refuses: the message, and return *)
RateLimited(u) == UNCHANGED <<sessions, nextID, stored, tasks, crashed>>

HandleAlone(u, text, env, logged) ==
    /\ ~crashed
    /\ Bounded(u, text)
    /\ rl' = IsAllowedState(rl, u, now)
    /\ IF ~IsAllowedResult(rl, u, now)
       THEN /\ gor' = IF logged
                      THEN [gor EXCEPT ![1] =
                              [IdleSlot EXCEPT !.pc = "done", !.user = u,
                                  !.out = <<"rate_limited">>]]
                      ELSE gor
            /\ RateLimited(u)
       ELSE LET m == Handled(u, text, env)
            IN  /\ Commit(m, u)
                /\ gor' = IF logged
                          THEN [gor EXCEPT ![1] = Slot(m, u)]
                          ELSE gor
    /\ UNCHANGED <<sweep, xtask, cfg, now, calls, xrun, cache>>

----------------------------------------------------------------------------
(* Spec: one update at a time.  HandleUpdate is the whole handler. *)

HandleUpdate(u, text, env) == HandleAlone(u, text, env, FALSE)

(* The generator responses of one run of ExtractProfile, call by call. *)
TaskScripts ==
    LET full    == [kind |-> "object", kv |-> [f \in SchemaFields |-> 1]]
        part    == [kind |-> "object", kv |-> [f \in {"f1"} |-> 1]]
        err     == [kind |-> "err", kv |-> <<>>]
        garbage == [kind |-> "garbage", kv |-> <<>>]
        null    == [kind |-> "null", kv |-> <<>>]
    IN  {<<full, full, full, full>>, <<full, part, full, full>>,
         <<full, part, part, part>>, <<err, full, full, full>>,
         <<full, garbage, full, full>>, <<full, part, err, full>>,
         <<full, null, full, full>>}

(* ExtractProfile run from x to its return, on the responses of script *)
RECURSIVE RunExtract(_, _)
RunExtract(x, script) ==
    IF x.pc \in {"done", "panic"} \/ script = <<>> THEN x
    ELSE RunExtract(ExtractStep(x, Head(script)), Tail(script))

(* A detached processProfileExtraction task runs, from its start to its     *)
(* return: h.extractor.ExtractProfile(session.Result) on the session as it  *)
(* is when the task runs, then messages and the profile file, whose         *)
(* outcomes only choose the messages.  tasks[u][i].id is the interview      *)
(* whose completion started the task.                                       *)
ProcessProfileExtraction(u, script) ==
    /\ ~crashed
    /\ sessions[u] # <<>>
    /\ \E i \in DOMAIN tasks[u] :
          /\ tasks[u][i].running
          /\ tasks' = [tasks EXCEPT ![u][i].running = FALSE]
    /\ IF sessions[u][1].Result = <<>>
       THEN /\ crashed' = TRUE
            /\ cache' = cache
       ELSE LET x == RunExtract(ExtractBegin(sessions[u][1].Result[1]), script)
            IN  /\ x.pc \in {"done", "panic"}
                /\ crashed' = (x.pc = "panic")
                /\ cache' = CacheAfter(cache, x)
    /\ UNCHANGED <<sweep, xtask, cfg, now, rl, sessions, nextID, stored, gor, calls, xrun>>

Tick ==
    /\ ~crashed
    /\ \E d \in Delays : now + d <= MaxTime /\ now' = now + d
    /\ UNCHANGED <<sweep, xtask, cfg, rl, sessions, nextID, stored, tasks, gor, crashed, calls, xrun, cache>>

InitCommon ==
    /\ now = 0
    /\ nextID = 0
    /\ stored = [i \in 1..MaxInterviews |-> 0]
    /\ sessions = [u \in Users |-> <<>>]
    /\ tasks = [u \in Users |-> <<>>]
    /\ gor = [g \in Goroutines |-> IdleSlot]
    /\ crashed = FALSE
    /\ calls = [u \in RLUsers |-> <<>>]
    /\ xrun = IdleRun
    /\ cache = [i \in 1..MaxInterviews |-> <<>>]
    /\ sweep = IdleSweep
    /\ xtask = [i \in 1..MaxInterviews |-> IdleRun]

ValidConfigs == {c \in CandidateConfigs : ValidateConfig(c)}

Init ==
    /\ cfg \in ValidConfigs
    /\ rl = NewRateLimiter(RateLimit, RateWindow, Users)
    /\ InitCommon

Next ==
    \/ \E u \in Users, text \in Answers \cup Commands :
          \E env \in Envs(text) : HandleUpdate(u, text, env)
    \/ \E u \in Users, script \in TaskScripts : ProcessProfileExtraction(u, script)
    \/ Tick

Spec == Init /\ [][Next]_vars

----------------------------------------------------------------------------
(* SpecInput: the input gate.  One block, updates handled one at a time, at   *)
(* most MaxBurst of them in a window, the messages of the last handler kept  *)
(* in gor[1].                                                                *)

HandleUpdateLogged(u, text, env) ==
    /\ Len(Purged(rl, u, now)) < MaxBurst
    /\ HandleAlone(u, text, env, TRUE)

InitInput ==
    /\ cfg \in {c \in ValidConfigs : GetTotalBlocks(c) = 1}
    /\ rl = NewRateLimiter(RateLimit, RateWindow, Users)
    /\ InitCommon

NextInput ==
    \/ \E u \in Users, text \in InputTexts \cup {CmdStart} :
          \E env \in Envs(text) : HandleUpdateLogged(u, text, env)
    \/ Tick

SpecInput == InitInput /\ [][NextInput]_vars

----------------------------------------------------------------------------
(* Vocabulary of the properties *)

Admitted(u) == IsAllowedResult(rl, u, now)

Waiting(u) == sessions[u] # <<>> /\ sessions[u][1].State = "waiting_answer"

IdleOrAbsent(u) == sessions[u] = <<>> \/ sessions[u][1].State = "idle"

Sent(m, msg) == \E i \in 1..Len(m.out) : m.out[i] = msg

(* The step handles, alone, the admitted text of u that validateUserInput    *)
(* accepts while u's session waits for an answer.                            *)
AnswerStep(u, text, env, logged) ==
    /\ Admitted(u)
    /\ Waiting(u)
    /\ ValidateUserInput(TrimSpace(text)) = "ok"
    /\ HandleAlone(u, text, env, logged)

(* The part of a session the interview is made of. *)
Interview(s) ==
    [State |-> s.State, CurrentBlock |-> s.CurrentBlock,
     QuestionCount |-> s.QuestionCount, CurrentDialogue |-> s.CurrentDialogue,
     CumulativeSummaries |-> s.CumulativeSummaries, Result |-> s.Result]

----------------------------------------------------------------------------
(* C1: in every reachable state of a session, QuestionCount is at most       *)
(* questionsPerBlock + maxFollowupQuestions, whatever the outcomes of the    *)
(* summarization and persistence calls.                                      *)
C1_QuestionCountWithinBudget ==
    \A u \in Users :
        sessions[u] # <<>> => sessions[u][1].QuestionCount <= MaxQuestions

(* C2: when CreateSummary fails while an answer is processed, the session    *)
(* (state, block index, question count, dialogue, summaries, result blocks)  *)
(* is what it was before the answer arrived.                                 *)
C2_SummaryFailureLeavesSession ==
    [][\A u \in Users, text \in Answers : \A env \in Envs(text) :
          (/\ AnswerStep(u, text, env, FALSE)
           /\ Sent(Handled(u, text, env), "summary_error"))
          => Interview(sessions'[u][1]) = Interview(sessions[u][1])]_vars

(* C5: after an accepted answer, while the count is below                    *)
(* questionsPerBlock + maxFollowupQuestions the next question of the same    *)
(* block is emitted and the session stays in waiting_answer; the completion  *)
(* of the block is triggered only when that budget is exhausted.             *)
C5_CompletionOnlyWhenBudgetExhausted ==
    [][\A u \in Users, text \in Answers : \A env \in Envs(text) :
          AnswerStep(u, text, env, FALSE)
          => LET before  == sessions[u][1]
                 after   == sessions'[u][1]
                 counted == before.QuestionCount + 1
             IN  /\ counted < MaxQuestions
                    => /\ after.State = "waiting_answer"
                       /\ after.CurrentBlock = before.CurrentBlock
                       /\ after.QuestionCount = counted
                       /\ Len(after.CurrentDialogue) = Len(before.CurrentDialogue) + 1
                       /\ after.CurrentDialogue[Len(after.CurrentDialogue)].Answer = <<>>
                 /\ Sent(Handled(u, text, env), "processing_block")
                    => counted >= MaxQuestions]_vars

(* C6: /start handled in state idle leaves the session in waiting_answer     *)
(* with a fresh interview id, CurrentBlock = 1, QuestionCount = 0 and the    *)
(* first question of block 1 pending; one accepted answer is then counted    *)
(* as the first of block 1 (QuestionCount = 1, or the block is already       *)
(* finished with that answer in it), and with a budget of 1 and a summary    *)
(* the block completes and CurrentBlock becomes 2.                           *)
FirstQuestionPending(s) ==
    /\ s.State = "waiting_answer"
    /\ s.CurrentBlock = 1
    /\ s.QuestionCount = 0
    /\ s.CurrentDialogue = <<[Question |-> cfg.Blocks[1].Questions[1], Answer |-> <<>>]>>

FirstAnswerCounted(s, answer) ==
    \/ /\ s.CurrentBlock = 1
       /\ s.QuestionCount = 1
       /\ s.CurrentDialogue[1] =
             [Question |-> cfg.Blocks[1].Questions[1], Answer |-> answer]
    \/ /\ s.CurrentBlock = 2
       /\ Len(s.Result[1].Blocks) = 1
       /\ s.Result[1].Blocks[1].BlockID = 1
       /\ s.Result[1].Blocks[1].QuestionsAndAnswers =
             <<[Question |-> cfg.Blocks[1].Questions[1], Answer |-> answer]>>

C6_StartThenFirstAnswer ==
    [][\A u \in Users :
          /\ (Admitted(u) /\ IdleOrAbsent(u) /\ HandleUpdate(u, CmdStart, AllOK))
             => /\ FirstQuestionPending(sessions'[u][1])
                /\ sessions'[u][1].InterviewID > nextID
                /\ nextID' = sessions'[u][1].InterviewID
                /\ sessions'[u][1].Result[1].InterviewID = sessions'[u][1].InterviewID
                /\ sessions'[u][1].Result[1].Blocks = <<>>
          /\ \A text \in Answers : \A env \in Envs(text) :
                (/\ Waiting(u)
                 /\ FirstQuestionPending(sessions[u][1])
                 /\ AnswerStep(u, text, env, FALSE))
                => /\ FirstAnswerCounted(sessions'[u][1], TrimSpace(text))
                   /\ (MaxQuestions = 1 /\ env.genOK)
                         => sessions'[u][1].CurrentBlock = 2]_vars

C6_Witness ==
    \E u \in Users :
        /\ sessions[u] # <<>>
        /\ MaxQuestions = 1
        /\ GetTotalBlocks(cfg) = 2
        /\ sessions[u][1].State = "waiting_answer"
        /\ sessions[u][1].CurrentBlock = 2
        /\ sessions[u][1].QuestionCount = 0
        /\ sessions[u][1].InterviewID = 1
        /\ FirstAnswerCounted(sessions[u][1], TrimSpace(TextPadded))

----------------------------------------------------------------------------
(* The input gate (SpecInput) *)

Chars == {"a", "b", " "}

(* One character makes up more than 80% of a text of more than 10. *)
Dominated(text) ==
    /\ Len8(text) > 10
    /\ \E c \in Chars : Count8(text, c) * 10 > Len8(text) * 8

EmptyTexts == {t \in InputTexts : TrimSpace(t) = <<>>}

LongTexts == {t \in InputTexts : Len8(TrimSpace(t)) > 4000}

DominatedTexts ==
    {t \in InputTexts : Dominated(TrimSpace(t)) /\ Len8(TrimSpace(t)) <= 4000}

(* The step handles, alone, the admitted text of u while u's session waits   *)
(* for an answer.                                                            *)
InputStep(u, text, env) ==
    /\ Admitted(u)
    /\ Waiting(u)
    /\ HandleUpdateLogged(u, text, env)

NotAnAnswer(before, after) ==
    /\ after.State = "waiting_answer"
    /\ after.CurrentBlock = before.CurrentBlock
    /\ after.QuestionCount = before.QuestionCount
    /\ after.CurrentDialogue = before.CurrentDialogue

(* C7: in waiting_answer a text that is empty after trimming is rejected:    *)
(* the state stays waiting_answer, QuestionCount is not incremented and no   *)
(* answer is recorded against the pending question.                          *)
C7_EmptyAnswerRejected ==
    [][\A u \in Users, text \in EmptyTexts :
          \A env \in Envs(text) :
              InputStep(u, text, env)
              => NotAnAnswer(sessions[u][1], sessions'[u][1])]_vars

(* C8: in waiting_answer a text of more than 4000 characters is rejected     *)
(* with the length error and the session is unchanged, LastActivity          *)
(* included.                                                                 *)
C8_TooLongRejectedUnchanged ==
    [][\A u \in Users, text \in LongTexts :
          \A env \in Envs(text) :
              InputStep(u, text, env)
              => /\ sessions'[u] = sessions[u]
                 /\ gor'[1].out = <<"too_long">>]_vars

C8_Witness ==
    \E u \in Users :
        /\ Waiting(u)
        /\ gor[1].user = u
        /\ gor[1].out = <<"too_long">>
        /\ sessions[u][1].LastActivity < now

(* C9: in waiting_answer a text of more than 10 characters in which one      *)
(* character makes up more than 80% is rejected with state and counters      *)
(* unchanged, whichever character it is and wherever it occurs.              *)
C9_DominatedAnswerRejected ==
    [][\A u \in Users, text \in DominatedTexts :
          \A env \in Envs(text) :
              InputStep(u, text, env)
              => NotAnAnswer(sessions[u][1], sessions'[u][1])]_vars

----------------------------------------------------------------------------
(* SpecRL: the RateLimiter alone.  Any quota and window of the bounds, the   *)
(* callers of RLUsers, the clock advancing by one; calls[u] is the history   *)
(* of u's IsAllowed calls, each with its time and its result.                *)

IsAllowed(u) ==
    /\ Len(calls[1]) + Len(calls[2]) < MaxCalls
    /\ rl' = IsAllowedState(rl, u, now)
    /\ calls' = [calls EXCEPT ![u] =
                    Append(@, [t |-> now, ok |-> IsAllowedResult(rl, u, now)])]
    /\ UNCHANGED <<sweep, xtask, cfg, now, sessions, nextID, stored, tasks, gor, crashed, xrun, cache>>

Advance ==
    /\ now < MaxClock
    /\ now' = now + 1
    /\ UNCHANGED <<sweep, xtask, cfg, rl, sessions, nextID, stored, tasks, gor, crashed, calls, xrun, cache>>

InitRL ==
    /\ cfg \in {c \in ValidConfigs : /\ GetTotalBlocks(c) = 1
                                     /\ GetQuestionsPerBlock(c) = 1
                                     /\ GetMaxFollowupQuestions(c) = 0}
    /\ rl \in {NewRateLimiter(n, w, RLUsers) : n \in 1..MaxLimit, w \in 1..MaxWindow}
    /\ InitCommon

NextRL ==
    \/ \E u \in RLUsers : IsAllowed(u)
    \/ Advance

SpecRL == InitRL /\ [][NextRL]_vars

(* C10: for one identity, from its first call: the first N calls made within *)
(* less than W of the first are all admitted, the (N+1)th call within that   *)
(* interval is rejected, and a call made W or more after the previous call   *)
(* is admitted.                                                              *)
C10_QuotaPerWindow ==
    \A u \in RLUsers :
        LET h == calls[u]
        IN  \A k \in 1..Len(h) :
              /\ (k <= rl.limit /\ h[k].t - h[1].t < rl.window) => h[k].ok
              /\ (k = rl.limit + 1 /\ h[k].t - h[1].t < rl.window) => ~h[k].ok
              /\ (k > 1 /\ h[k].t - h[k - 1].t >= rl.window) => h[k].ok

C10_Witness ==
    \E u \in RLUsers :
        LET h == calls[u]
            n == rl.limit
        IN  /\ n >= 2
            /\ Len(h) = n + 2
            /\ h[n + 1].t - h[1].t < rl.window
            /\ h[n].ok
            /\ ~h[n + 1].ok
            /\ h[n + 2].t - h[n + 1].t >= rl.window
            /\ h[n + 2].ok

----------------------------------------------------------------------------
(* SpecConc: StartPolling starts one goroutine per update (go handler(u)),   *)
(* and nothing orders the handlers of one user: a handler runs from one      *)
(* outbound call to the next in one step, and the steps of the handlers      *)
(* interleave.  A slot is free again when its handler has returned.          *)

ConcTexts == {CmdStart, CmdRestart, TextPadded}

Running(g) == gor[g].pc \notin {"idle", "done", "panic"}

After(m, u) ==
    IF m.pc = "done" THEN IdleSlot ELSE [Slot(m, u) EXCEPT !.out = <<>>]

(* The outcomes the step after the outbound call pc can depend on. *)
StepEnvs(pc) ==
    CASE pc = "finish_summary" -> [genOK : BOOLEAN, saveOK : {TRUE}, found : {TRUE}]
      [] pc = "complete_save"  -> [genOK : {TRUE}, saveOK : BOOLEAN, found : {TRUE}]
      [] OTHER -> {AllOK}

(* go handler(update): HandleUpdate up to its first outbound call *)
Begin(g, u, text) ==
    /\ ~crashed
    /\ ~Running(g)
    /\ Bounded(u, text)
    /\ Len(Purged(rl, u, now)) < MaxBurst
    /\ rl' = IsAllowedState(rl, u, now)
    /\ IF ~IsAllowedResult(rl, u, now)
       THEN UNCHANGED <<sessions, nextID, stored, tasks, crashed, gor>>
       ELSE LET m == Dispatch(GetOrCreateSession(sessions, u, now)[u][1], g,
                              text, nextID + 1, now, AllOK)
            IN  /\ Commit(m, u)
                /\ gor' = [gor EXCEPT ![g] = After(m, u)]
    /\ UNCHANGED <<sweep, xtask, cfg, now, calls, xrun, cache>>

(* The outbound call of the handler in slot g returns. *)
Continue(g, env) ==
    /\ ~crashed
    /\ Running(g)
    /\ env \in StepEnvs(gor[g].pc)
    /\ LET u == gor[g].user
           m == Step([NewHandlerRun(sessions[u][1], g) EXCEPT
                         !.pc = gor[g].pc, !.saveID = gor[g].saveID], env)
       IN  /\ Commit(m, u)
           /\ gor' = [gor EXCEPT ![g] = After(m, u)]
    /\ UNCHANGED <<sweep, xtask, cfg, now, rl, calls, xrun, cache>>

NextConc ==
    \/ \E g \in Goroutines, u \in Users, text \in ConcTexts : Begin(g, u, text)
    \/ \E g \in Goroutines, env \in [genOK : BOOLEAN, saveOK : BOOLEAN, found : {TRUE}] :
          Continue(g, env)
    \/ \E u \in Users, script \in TaskScripts : ProcessProfileExtraction(u, script)

SpecConc == Init /\ [][NextConc]_vars

(* C3: the handlers of two concurrent updates of one user do not interleave  *)
(* on the session: no block is finished twice, so the result never holds     *)
(* two BlockResults of the same block.                                       *)
C3_NoBlockFinishedTwice ==
    \A u \in Users :
        (sessions[u] # <<>> /\ sessions[u][1].Result # <<>>)
        => LET blocks == sessions[u][1].Result[1].Blocks
           IN  \A i, j \in 1..Len(blocks) :
                  i # j => blocks[i].BlockID # blocks[j].BlockID

(* C4: whenever a session is completed, its result holds exactly             *)
(* TotalBlocks BlockResults, with the block ids 1, 2, ..., TotalBlocks in    *)
(* that order.                                                               *)
C4_CompletedResultHasAllBlocks ==
    \A u \in Users :
        (sessions[u] # <<>> /\ sessions[u][1].State = "completed")
        => /\ sessions[u][1].Result # <<>>
           /\ Len(sessions[u][1].Result[1].Blocks) = GetTotalBlocks(cfg)
           /\ \A i \in 1..Len(sessions[u][1].Result[1].Blocks) :
                 sessions[u][1].Result[1].Blocks[i].BlockID = i

----------------------------------------------------------------------------
(* C11: IsAllowed runs under rl.mutex, so concurrent calls are the calls of  *)
(* SpecRL in some order.  In any such order the calls admitted for one       *)
(* identity within any window of length W (less than W apart) are at most N, *)
(* and every decision for an identity is the decision of a limiter that has  *)
(* seen the calls of that identity only.                                     *)

RECURSIVE Alone(_, _, _)
Alone(u, h, k) ==
    IF k = 0 THEN NewRateLimiter(rl.limit, rl.window, {u})
    ELSE IsAllowedState(Alone(u, h, k - 1), u, h[k].t)

AdmittedWithin(h, k) ==
    {j \in 1..k : h[j].ok /\ h[k].t - h[j].t < rl.window}

C11_WindowBoundAndIndependence ==
    \A u \in RLUsers :
        LET h == calls[u]
        IN  /\ \A k \in 1..Len(h) :
                 /\ Cardinality(AdmittedWithin(h, k)) <= rl.limit
                 /\ h[k].ok = IsAllowedResult(Alone(u, h, k - 1), u, h[k].t)
            /\ rl.requests[u] = Alone(u, h, Len(h)).requests[u]

C11_Witness ==
    /\ rl.limit >= 2
    /\ Len(calls[1]) = rl.limit + 1
    /\ ~calls[1][rl.limit + 1].ok
    /\ Len(calls[2]) = 2
    /\ calls[2][1].t <= calls[1][1].t
    /\ calls[2][2].t = calls[1][rl.limit + 1].t
    /\ calls[2][2].ok
    /\ Len(rl.requests[1]) = rl.limit
    /\ Len(rl.requests[2]) = 2

----------------------------------------------------------------------------
(* SpecSweep: updates handled one at a time over more than a day, with the   *)
(* hourly cleanupInactiveSessions; the replies of the last handler are kept  *)
(* in gor[1].                                                                *)

SweepTexts == Commands \cup {TextPadded, TextOver}

HandleUpdateSwept(u, text, env) == HandleAlone(u, text, env, TRUE)

(* cleanupInactiveSessions deleting at the cutoff as well *)
CleanupInactiveSessionsInclusive ==
    /\ ~crashed
    /\ sessions' = [u \in Users |->
                      IF /\ sessions[u] # <<>>
                         /\ sessions[u][1].LastActivity <= now - SessionTTL
                      THEN <<>>
                      ELSE sessions[u]]
    /\ UNCHANGED <<sweep, xtask, cfg, now, rl, nextID, stored, tasks, gor, crashed, calls, xrun, cache>>

(* cleanupInactiveSessions, under sessionsMutex *)
CleanupInactiveSessions ==
    /\ ~crashed
    /\ sessions' = [u \in Users |->
                      IF /\ sessions[u] # <<>>
                         /\ sessions[u][1].LastActivity < now - SessionTTL
                      THEN <<>>
                      ELSE sessions[u]]
    /\ UNCHANGED <<sweep, xtask, cfg, now, rl, nextID, stored, tasks, gor, crashed, calls, xrun, cache>>

DayPasses ==
    /\ ~crashed
    /\ \E d \in {SessionTTL, SessionTTL + 1} :
          /\ now + d <= MaxSweepTime
          /\ now' = now + d
    /\ UNCHANGED <<sweep, xtask, cfg, rl, sessions, nextID, stored, tasks, gor, crashed, calls, xrun, cache>>

InitSweep ==
    /\ cfg \in {c \in ValidConfigs : /\ GetTotalBlocks(c) = 1
                                     /\ GetQuestionsPerBlock(c) = 1
                                     /\ GetMaxFollowupQuestions(c) = 0}
    /\ rl = NewRateLimiter(RateLimit, RateWindow, Users)
    /\ InitCommon

NextSweep ==
    \/ \E u \in Users, text \in SweepTexts :
          \E env \in Envs(text) : HandleUpdateSwept(u, text, env)
    \/ CleanupInactiveSessions
    \/ DayPasses

SpecSweep == InitSweep /\ [][NextSweep]_vars

(* C12: an update refused by the rate limiter changes no session: it creates *)
(* none for a user who has none and changes no field of an existing one.     *)
C12_RateLimitedTouchesNoSession ==
    [][\A u \in Users, text \in SweepTexts : \A env \in Envs(text) :
          (~Admitted(u) /\ HandleUpdateSwept(u, text, env))
          => /\ sessions' = sessions
             /\ gor'[1].out = <<"rate_limited">>]_vars

C12_Witness ==
    \E u \in Users :
        /\ sessions[u] = <<>>
        /\ gor[1].user = u
        /\ gor[1].out = <<"rate_limited">>
        /\ Len(Purged(rl, u, now)) = RateLimit

----------------------------------------------------------------------------
(* SpecExtract: extractor.Service alone.  ExtractProfile is called with the  *)
(* InterviewResult of a finished interview, one run at a time; each          *)
(* generator call returns any of the responses.                              *)

Absent == -1

Objects ==
    {[k \in {k \in {"f1", "f2", "x"} : r[k] # Absent} |-> r[k]] :
        r \in [f1 : {Absent, Null, 1, 2}, f2 : {Absent, Null, 1}, x : {Absent, 1}]}

Responses ==
    {[kind |-> "err", kv |-> <<>>], [kind |-> "garbage", kv |-> <<>>],
     [kind |-> "null", kv |-> <<>>]}
    \cup {[kind |-> "object", kv |-> o] : o \in Objects}

(* The InterviewResult of the finished interview id. *)
ResultOf(id) ==
    [InterviewID |-> id, Timestamp |-> 0,
     Blocks |-> <<[BlockID |-> 1,
                   QuestionsAndAnswers |->
                       <<[Question |-> <<1, 1>>, Answer |-> TrimSpace(TextPadded)]>>]>>]

ExtractProfile(id) ==
    /\ ~crashed
    /\ xrun.pc \in {"idle", "done"}
    /\ xrun' = ExtractBegin(ResultOf(id))
    /\ UNCHANGED <<sweep, xtask, cfg, now, rl, sessions, nextID, stored, tasks, gor, crashed,
                   calls, cache>>

GeneratorReturns(resp) ==
    /\ ~crashed
    /\ xrun.pc \in {"extract", "validate", "fill"}
    /\ xrun' = ExtractStep(xrun, resp)
    /\ cache' = CacheAfter(cache, ExtractStep(xrun, resp))
    /\ crashed' = (ExtractStep(xrun, resp).pc = "panic")
    /\ UNCHANGED <<sweep, xtask, cfg, now, rl, sessions, nextID, stored, tasks, gor, calls>>

InitExtract ==
    /\ cfg \in {c \in ValidConfigs : /\ GetTotalBlocks(c) = 1
                                     /\ GetQuestionsPerBlock(c) = 1
                                     /\ GetMaxFollowupQuestions(c) = 0}
    /\ rl = NewRateLimiter(RateLimit, RateWindow, Users)
    /\ InitCommon

NextExtract ==
    \/ \E id \in 1..MaxInterviews : ExtractProfile(id)
    \/ \E resp \in Responses : GeneratorReturns(resp)

SpecExtract == InitExtract /\ [][NextExtract]_vars

(* C13: in the retry-fill merge a field that holds a non-null value keeps    *)
(* exactly that value, whatever the fill response contains.                  *)
C13_FillKeepsFilledFields ==
    [][\A resp \in Responses :
          (xrun.pc = "fill" /\ GeneratorReturns(resp) /\ xrun'.pc # "panic")
          => \A k \in DOMAIN xrun.formatted.kv :
                xrun.formatted.kv[k] # Null
                => /\ k \in DOMAIN xrun'.formatted.kv
                   /\ xrun'.formatted.kv[k] = xrun.formatted.kv[k]]_vars

(* C14: when schema fields are still missing after the 2 fill attempts the   *)
(* run fails and the reported list is exactly the set of schema fields       *)
(* absent or null in the record.                                             *)
Unfilled(kv) == {f \in SchemaFields : f \notin DOMAIN kv \/ kv[f] = Null}

C14_UnfilledFieldsReported ==
    (/\ xrun.pc = "done"
     /\ xrun.attempts = 2
     /\ Unfilled(xrun.formatted.kv) # {})
    => /\ ~xrun.result.Success
       /\ xrun.result.Error = "unfilled"
       /\ xrun.result.ProfileJSON = <<>>
       /\ xrun.result.Reported = Unfilled(xrun.formatted.kv)

C14_Witness ==
    /\ xrun.pc = "done"
    /\ xrun.attempts = 2
    /\ xrun.result.Error = "unfilled"
    /\ xrun.result.Reported = {"f2"}
    /\ "f1" \in DOMAIN xrun.formatted.kv
    /\ xrun.formatted.kv["f1"] = 2

(* C15: ExtractProfile reports success only when every schema field is       *)
(* present and non-null in the final record, and the record returned then    *)
(* carries the metadata key.                                                 *)
C15_SuccessMeansComplete ==
    (xrun.pc = "done" /\ xrun.result.Success)
    => LET record == Unmarshal(xrun.result.ProfileJSON[1])[1].kv
       IN  /\ \A f \in SchemaFields : f \in DOMAIN record /\ record[f] # Null
           /\ MetadataKey \in DOMAIN record
           /\ record[MetadataKey] = MetadataOf(ResultOf(xrun.id))

C15_Witness ==
    /\ xrun.pc = "done"
    /\ xrun.result.Success
    /\ xrun.attempts = 2
    /\ xrun.ncalls = 4

(* C16: after a successful run for interview X the cache entry of X is the   *)
(* serialized record the run returned; a failed run creates no entry and     *)
(* changes none, and no run changes the entry of another interview.          *)
C16_CacheHoldsLastSuccess ==
    [][xrun' # xrun
       => IF xrun'.pc = "done" /\ xrun'.result.Success
          THEN /\ cache'[xrun'.id] = xrun'.result.ProfileJSON
               /\ \A i \in DOMAIN cache : i # xrun'.id => cache'[i] = cache[i]
          ELSE cache' = cache]_vars

C16_Witness ==
    /\ xrun.pc = "done"
    /\ ~xrun.result.Success
    /\ xrun.id = 1
    /\ cache[1] # <<>>
    /\ cache[2] # <<>>
    /\ cache[1] # cache[2]

(* C17: a run of ExtractProfile, successful or not, leaves the               *)
(* InterviewResult it was given unchanged, so a later run on it reads the    *)
(* same input.                                                               *)
C17_GivenResultUnchanged ==
    xrun.pc # "idle"
    => /\ xrun.given = <<ResultOf(xrun.id)>>
       /\ xrun.copy[1].InterviewID = ResultOf(xrun.id).InterviewID
       /\ xrun.copy[1].Timestamp = ResultOf(xrun.id).Timestamp
       /\ xrun.copy[1].Blocks = ResultOf(xrun.id).Blocks

C17_Witness ==
    /\ xrun.pc = "done"
    /\ ~xrun.result.Success
    /\ cache[xrun.id] # <<>>
    /\ xrun.given = <<ResultOf(xrun.id)>>

----------------------------------------------------------------------------
(* C19: when SaveResult fails after the last block has finished, the handler *)
(* reports the failure to the user and leaves the session Completed.         *)
C19_SaveFailureStillCompletes ==
    [][\A u \in Users, text \in Answers : \A env \in Envs(text) :
          (/\ AnswerStep(u, text, env, FALSE)
           /\ Sent(Handled(u, text, env), "save_error"))
          => sessions'[u][1].State = "completed"]_vars

(* C20: no sequence of updates and collaborator failures brings a handler    *)
(* or the extraction task to a fault that ends the process: the blocks of    *)
(* the configuration are never indexed outside 1..N and an absent            *)
(* InterviewResult is never dereferenced.                                    *)
C20_NoFatalFault == ~crashed

----------------------------------------------------------------------------
(* C18: an extraction task is started only by the completion of an          *)
(* interview (its result has been written and the handler has marked the     *)
(* session Completed), one task at a time and at most once for a completed   *)
(* interview, and a step of the task, whatever the outcome of the            *)
(* extraction, leaves the session as it is.                                  *)
TaskStarted(u) == Len(tasks'[u]) > Len(tasks[u])

TaskRan(u) ==
    \E i \in DOMAIN tasks[u] : tasks[u][i].running /\ ~tasks'[u][i].running

C18_ExtractionOncePerCompletion ==
    [][\A u \in Users :
          /\ TaskStarted(u)
                => /\ Len(tasks'[u]) = Len(tasks[u]) + 1
                   /\ tasks'[u][Len(tasks'[u])].id \in 1..MaxInterviews
                   /\ stored'[tasks'[u][Len(tasks'[u])].id] > 0
                   /\ \A i \in DOMAIN tasks[u] :
                         tasks[u][i].id # tasks'[u][Len(tasks'[u])].id
          /\ TaskRan(u) => sessions'[u] = sessions[u]]_vars

----------------------------------------------------------------------------
(* C21: after a sweep at time now no session whose LastActivity precedes     *)
(* now - 24h is in the registry, whatever its state, and every session       *)
(* whose LastActivity lies within the last 24h is still there, unchanged.    *)
C21_SweepRemovesExactlyExpired ==
    [][CleanupInactiveSessions
       => \A u \in Users :
             sessions[u] # <<>>
             => IF sessions[u][1].LastActivity < now - 24 * 3600
                THEN sessions'[u] = <<>>
                ELSE sessions'[u] = sessions[u]]_vars

C21_Witness ==
    \E u \in Users :
        /\ sessions[u] = <<>>
        /\ now > 24 * 3600
        /\ nextID > 0
        /\ rl.requests[u] # <<>>

----------------------------------------------------------------------------
----------------------------------------------------------------------------
(* C23: /stop or /restart received while an interview is running (state      *)
(* interview or waiting_answer) leaves the session idle with the dialogue,   *)
(* the counters, the summaries, the interview id and the result discarded,   *)
(* and no InterviewResult of the abandoned interview is in storage.          *)
Abandoning == {CmdStop, CmdRestart}

InProgress(u) ==
    sessions[u] # <<>> /\ sessions[u][1].State \in {"interview", "waiting_answer"}

C23_StopDiscardsInterview ==
    [][\A u \in Users, text \in Abandoning : \A env \in Envs(text) :
          (/\ Admitted(u)
           /\ InProgress(u)
           /\ HandleUpdate(u, text, env))
          => LET after == sessions'[u][1]
             IN  /\ after.State = "idle"
                 /\ after.CurrentBlock = 0
                 /\ after.QuestionCount = 0
                 /\ after.CurrentDialogue = <<>>
                 /\ after.CumulativeSummaries = <<>>
                 /\ after.InterviewID = 0
                 /\ after.Result = <<>>
                 /\ stored' = stored
                 /\ stored[sessions[u][1].InterviewID] = 0]_vars

C23_Witness ==
    \E u \in Users :
        /\ sessions[u] # <<>>
        /\ sessions[u][1].State = "idle"
        /\ sessions[u][1].Result = <<>>
        /\ nextID = 1
        /\ stored[1] = 0
        /\ ~crashed

----------------------------------------------------------------------------
(* C24: a completed session changes state only to idle and only by /stop or  *)
(* /restart: no answer, no other command and no step of the extraction task  *)
(* moves it out of completed.                                                *)
Completed(u) == sessions[u] # <<>> /\ sessions[u][1].State = "completed"

C24_CompletedLeftOnlyByReset ==
    [][\A u \in Users :
          (/\ Completed(u)
           /\ sessions'[u] # <<>>
           /\ sessions'[u][1].State # "completed")
          => /\ sessions'[u][1].State = "idle"
             /\ \E text \in Abandoning : \E env \in Envs(text) :
                   HandleUpdate(u, text, env)]_vars

----------------------------------------------------------------------------
(* C25: the InterviewResult of an interview is written to storage exactly    *)
(* once, at the transition to completed and not before it, and while the     *)
(* session stays completed no step changes the result.                       *)
C25_ResultWrittenOnceThenFrozen ==
    [][\A u \in Users :
          /\ \A i \in DOMAIN stored : stored'[i] <= 1
          /\ (sessions'[u] # <<>> /\ sessions'[u][1].InterviewID # 0)
                => (stored'[sessions'[u][1].InterviewID] = 1
                       <=> sessions'[u][1].State = "completed")
          /\ (/\ Completed(u)
              /\ sessions'[u] # <<>>
              /\ sessions'[u][1].InterviewID = sessions[u][1].InterviewID)
                => sessions'[u][1].Result = sessions[u][1].Result]_vars

----------------------------------------------------------------------------
(* C26: within a session CurrentBlock never decreases from one state to the  *)
(* next, except in the step of an explicit reset (/stop, /restart).          *)
C26_CurrentBlockMonotone ==
    [][\A u \in Users :
          (/\ sessions[u] # <<>>
           /\ sessions'[u] # <<>>
           /\ sessions'[u][1].CurrentBlock < sessions[u][1].CurrentBlock)
          => \E text \in Abandoning : \E env \in Envs(text) :
                HandleUpdate(u, text, env)]_vars

----------------------------------------------------------------------------
(* C27: /status changes no field of the session, in any state: state,        *)
(* interview id, block index, question count, dialogue, summaries, result    *)
(* and LastActivity are after the query what they were before it.            *)
C27_StatusReadsOnly ==
    [][\A u \in Users : \A env \in Envs(CmdStatus) :
          (/\ Admitted(u)
           /\ sessions[u] # <<>>
           /\ HandleUpdateSwept(u, CmdStatus, env))
          => LET before == sessions[u][1]
                 after  == sessions'[u][1]
             IN  /\ gor'[1].out = <<"status">>
                 /\ after.State = before.State
                 /\ after.InterviewID = before.InterviewID
                 /\ after.CurrentBlock = before.CurrentBlock
                 /\ after.QuestionCount = before.QuestionCount
                 /\ after.CurrentDialogue = before.CurrentDialogue
                 /\ after.CumulativeSummaries = before.CumulativeSummaries
                 /\ after.Result = before.Result
                 /\ after.LastActivity = before.LastActivity]_vars

C27_Witness ==
    \E u \in Users :
        /\ gor[1].user = u
        /\ gor[1].out = <<"status">>
        /\ sessions[u] # <<>>
        /\ sessions[u][1].State = "completed"
        /\ sessions[u][1].LastActivity < now

----------------------------------------------------------------------------
(* C28: a rejected call of IsAllowed records nothing: the list of the        *)
(* identity is afterwards the list it had, without the entries that left     *)
(* the window, and holds the times of admitted calls only, so that a         *)
(* rejected call does not postpone the next admission.                       *)
C28_RejectedCallRecordsNothing ==
    [][\A u \in RLUsers :
          (IsAllowed(u) /\ ~calls'[u][Len(calls'[u])].ok)
          => /\ rl'.requests[u] =
                   SelectSeq(rl.requests[u], LAMBDA x : now - x < rl.window)
             /\ \A i \in 1..Len(rl'.requests[u]) :
                   \E k \in 1..Len(calls[u]) :
                      calls[u][k].ok /\ calls[u][k].t = rl'.requests[u][i]
             /\ \A v \in RLUsers \ {u} : rl'.requests[v] = rl.requests[v]]_vars

C28_Witness ==
    \E k \in 2..(Len(calls[1]) - 1) :
        /\ calls[1][k - 1].ok
        /\ ~calls[1][k].ok
        /\ calls[1][k].t > calls[1][k - 1].t
        /\ calls[1][k + 1].ok
        /\ calls[1][k + 1].t - calls[1][k].t < rl.window
        /\ calls[1][k].t \notin {rl.requests[1][i] : i \in 1..Len(rl.requests[1])}

----------------------------------------------------------------------------
(* C29: a run of ExtractProfile makes one extraction call and then at most   *)
(* 2 fill calls, a fill call only while a field is missing: between 1 and 3  *)
(* generator calls in all.                                                   *)
CallsMade ==
    xrun.ncalls + (IF xrun.pc \in {"extract", "validate", "fill"} THEN 1 ELSE 0)

C29_AtMostThreeCalls ==
    xrun.pc # "idle"
    => /\ CallsMade \in 1..3
       /\ xrun.attempts <= 2
       /\ xrun.pc = "fill" => xrun.missing # {}

----------------------------------------------------------------------------
(* C30: when a generator response is no key-to-value record the run ends at  *)
(* once with Success false: no further generator call is made in the run    *)
(* and no profile is cached.                                                 *)
C30_ParseFailureEndsRun ==
    [][\A resp \in Responses :
          (/\ resp.kind = "garbage"
           /\ GeneratorReturns(resp))
          => /\ xrun'.pc = "done"
             /\ ~xrun'.result.Success
             /\ xrun'.ncalls = xrun.ncalls + 1
             /\ cache' = cache]_vars

----------------------------------------------------------------------------
(* SpecLock: the handlers of SpecConc together with the cleanup goroutine.   *)
(* cleanupInactiveSessions holds sessionsMutex from CleanupLocks to          *)
(* CleanupUnlocks; a handler takes the mutex in getOrCreateSession only and  *)
(* writes the fields of its session without it.  sweep.read[u] is            *)
(* LastActivity of u's session when the pass began: the pass reads the       *)
(* field at some moment between the two steps.                               *)

LockedBegin(g, u, text) ==
    /\ IsAllowedResult(rl, u, now) => sweep.pc = "idle"
    /\ Begin(g, u, text)

CleanupLocks ==
    /\ ~crashed
    /\ sweep.pc = "idle"
    /\ sweep' = [pc |-> "pass",
                 read |-> [u \in Users |->
                     IF sessions[u] = <<>> THEN <<>>
                     ELSE <<sessions[u][1].LastActivity>>]]
    /\ UNCHANGED <<cfg, now, rl, sessions, nextID, stored, tasks, gor, crashed,
                   calls, xrun, cache, xtask>>

(* The rest of the pass: each session is deleted or kept on the value of    *)
(* LastActivity the pass has read, which a handler may have written since   *)
(* the pass began.  A handler still running on a deleted session goes on    *)
(* with a session that is in the registry no more: it is followed no        *)
(* further.                                                                  *)
Expired(u, late) ==
    /\ sessions[u] # <<>>
    /\ (IF u \in late THEN sessions[u][1].LastActivity
                       ELSE sweep.read[u][1]) < now - SessionTTL

CleanupUnlocks(late) ==
    /\ ~crashed
    /\ sweep.pc = "pass"
    /\ sessions' = [u \in Users |-> IF Expired(u, late) THEN <<>> ELSE sessions[u]]
    /\ gor' = [g \in Goroutines |->
                  IF gor[g].user \in Users /\ Expired(gor[g].user, late)
                  THEN IdleSlot ELSE gor[g]]
    /\ sweep' = IdleSweep
    /\ UNCHANGED <<cfg, now, rl, nextID, stored, tasks, crashed, calls,
                   xrun, cache, xtask>>

NextLock ==
    \/ \E g \in Goroutines, u \in Users, text \in ConcTexts : LockedBegin(g, u, text)
    \/ \E g \in Goroutines, env \in [genOK : BOOLEAN, saveOK : BOOLEAN, found : {TRUE}] :
          Continue(g, env)
    \/ CleanupLocks
    \/ \E late \in SUBSET Users : CleanupUnlocks(late)
    \/ DayPasses

SpecLock == InitSweep /\ [][NextLock]_vars

(* The fields of a UserSession. *)
Fields(s) ==
    [State |-> s.State, InterviewID |-> s.InterviewID,
     CurrentBlock |-> s.CurrentBlock, QuestionCount |-> s.QuestionCount,
     CurrentDialogue |-> s.CurrentDialogue,
     CumulativeSummaries |-> s.CumulativeSummaries,
     Result |-> s.Result, LastActivity |-> s.LastActivity]

(* C31: the pass of the sweep over the registry never overlaps with a        *)
(* handler that writes fields of a session of the registry: while the pass   *)
(* is under way no field of a session changes.                               *)
C31_SweepExcludesSessionWrites ==
    [][(sweep.pc = "pass" /\ sweep'.pc = "pass")
       => \A u \in Users :
             sessions[u] # <<>>
             => /\ sessions'[u] # <<>>
                /\ Fields(sessions'[u][1]) = Fields(sessions[u][1])]_vars

----------------------------------------------------------------------------
(* SpecCache: the detached extraction tasks of the completed interviews,     *)
(* each running ExtractProfile in its own goroutine on the one Service.      *)
(* The assignment to the map lastProfileJSON is taken from TaskWritesCache   *)
(* (the write begins) to TaskCacheWritten (it is done); nothing in Service   *)
(* orders the tasks.                                                         *)

TaskResponses ==
    {[kind |-> "err", kv |-> <<>>],
     [kind |-> "object", kv |-> [f \in SchemaFields |-> 1]],
     [kind |-> "object", kv |-> [f \in {"f1"} |-> 1]]}

Caching(i) == xtask[i].pc = "caching"

(* go h.processProfileExtraction(chatID, session), up to the first call *)
TaskStarts(i) ==
    /\ ~crashed
    /\ xtask[i].pc = "idle"
    /\ xtask' = [xtask EXCEPT ![i] = ExtractBegin(ResultOf(i))]
    /\ UNCHANGED <<cfg, now, rl, sessions, nextID, stored, tasks, gor, crashed,
                   calls, xrun, cache, sweep>>

(* A generator call of the task returns; a run that succeeds has come to    *)
(* its assignment to lastProfileJSON.                                        *)
TaskGeneratorReturns(i, resp) ==
    /\ ~crashed
    /\ xtask[i].pc \in {"extract", "validate", "fill"}
    /\ LET x == ExtractStep(xtask[i], resp)
       IN  /\ xtask' = [xtask EXCEPT ![i] =
                           IF x.pc = "done" /\ x.result.Success
                           THEN [x EXCEPT !.pc = "caching"] ELSE x]
           /\ crashed' = (x.pc = "panic")
    /\ UNCHANGED <<cfg, now, rl, sessions, nextID, stored, tasks, gor, calls,
                   xrun, cache, sweep>>

(* The assignment is done.  When another task was writing the map at the    *)
(* same time the Go runtime may have ended the process (concurrent map      *)
(* writes).                                                                  *)
TaskCacheWritten(i, fault) ==
    /\ ~crashed
    /\ Caching(i)
    /\ fault => \E j \in DOMAIN xtask : j # i /\ Caching(j)
    /\ crashed' = fault
    /\ xtask' = [xtask EXCEPT ![i].pc = "done"]
    /\ cache' = CacheAfter(cache, [xtask[i] EXCEPT !.pc = "done"])
    /\ UNCHANGED <<cfg, now, rl, sessions, nextID, stored, tasks, gor, calls,
                   xrun, sweep>>

NextCache ==
    \/ \E i \in 1..MaxInterviews : TaskStarts(i)
    \/ \E i \in 1..MaxInterviews, resp \in TaskResponses : TaskGeneratorReturns(i, resp)
    \/ \E i \in 1..MaxInterviews, fault \in BOOLEAN : TaskCacheWritten(i, fault)

SpecCache == InitExtract /\ [][NextCache]_vars

(* C32: the profile cache, written by the extraction tasks of different      *)
(* interviews, is never written by two tasks at the same time.               *)
C32_CacheWrittenByOneTaskAtATime ==
    \A i, j \in DOMAIN xtask : (Caching(i) /\ Caching(j)) => i = j

----------------------------------------------------------------------------
(* SpecHang: SpecConc with its scheduling.  A goroutine that can take a step *)
(* takes it, except for the return of CreateSummary: callOpenAI sends the    *)
(* request with an http.Client that has no Timeout and with no context, so   *)
(* the call returns when the generator answers, and only then.               *)

AllEnvs == [genOK : BOOLEAN, saveOK : BOOLEAN, found : {TRUE}]

InCreateSummary(g) == gor[g].pc = "finish_summary"

HandlerProceeds(g) ==
    \E env \in AllEnvs : ~InCreateSummary(g) /\ Continue(g, env)

SpecHang ==
    /\ Init
    /\ [][NextConc]_vars
    /\ \A g \in Goroutines : WF_vars(HandlerProceeds(g))

(* C33: a generator call made while an update is handled, the call of        *)
(* CreateSummary in particular, ends in bounded time whether the generator   *)
(* answers or not: a handler that is in the call leaves it.                  *)
C33_SummaryCallEnds ==
    \A g \in Goroutines : InCreateSummary(g) ~> (~InCreateSummary(g) \/ crashed)

----------------------------------------------------------------------------
(* The first message of each command handler, and of handleUserInput. *)
CommandReplies ==
    {"welcome", "already_running", "help", "status", "restarted", "not_running",
     "stopped", "profile_unavailable", "profile_not_found", "profile_json",
     "summary_unavailable", "summary_failed", "profile_summary",
     "unknown_command"}

AnswerReplies == {"not_waiting", "too_long", "repeated", "question", "processing_block"}

(* The text a is the answer of some question of the session. *)
Recorded(s, a) ==
    \/ \E i \in DOMAIN s.CurrentDialogue : s.CurrentDialogue[i].Answer = a
    \/ /\ s.Result # <<>>
       /\ \E b \in DOMAIN s.Result[1].Blocks :
             \E i \in DOMAIN s.Result[1].Blocks[b].QuestionsAndAnswers :
                s.Result[1].Blocks[b].QuestionsAndAnswers[i].Answer = a

(* C34: the text of an admitted update (as HandleUpdate has it, trimmed)     *)
(* that begins with "/" is handled by a command handler, is recorded as the  *)
(* answer of no question and is not counted in QuestionCount, whatever the   *)
(* state and also when the command is unknown; any other text is handled by  *)
(* handleUserInput, which records and counts it when the session waits for   *)
(* an answer and the text is valid.                                          *)
C34_SlashTextIsCommand ==
    [][\A u \in Users, text \in SweepTexts : \A env \in Envs(text) :
          (Admitted(u) /\ HandleUpdateSwept(u, text, env))
          => LET t      == TrimSpace(text)
                 before == GetOrCreateSession(sessions, u, now)[u][1]
                 after  == sessions'[u][1]
             IN  IF HasPrefixSlash(t)
                 THEN /\ gor'[1].out[1] \in CommandReplies
                      /\ after.QuestionCount \in {before.QuestionCount, 0}
                      /\ ~Recorded(after, t)
                 ELSE /\ gor'[1].out[1] \in AnswerReplies
                      /\ (before.State = "waiting_answer"
                             /\ ValidateUserInput(t) = "ok")
                          => /\ Recorded(after, t)
                             /\ \/ after.QuestionCount = before.QuestionCount + 1
                                \/ after.CurrentBlock > before.CurrentBlock]_vars

C34_Witness ==
    \E u \in Users :
        /\ gor[1].user = u
        /\ gor[1].out = <<"unknown_command">>
        /\ sessions[u] # <<>>
        /\ sessions[u][1].State = "waiting_answer"
        /\ sessions[u][1].QuestionCount = 0
        /\ Len(sessions[u][1].CurrentDialogue) = 1
        /\ sessions[u][1].CurrentDialogue[1].Answer = <<>>

----------------------------------------------------------------------------
(* SpecLive: a user who starts interviews and then sends valid answers only, *)
(* updates handled one at a time.  The answers keep coming and are handled   *)
(* while the process runs, and among the attempts of CreateSummary and       *)
(* SaveResult there are always later ones that succeed.                      *)

StartArrives(u) == HandleUpdate(u, CmdStart, AllOK)

AnswerArrives(u, env) == HandleUpdate(u, TextPadded, env)

NextLive ==
    \/ \E u \in Users : StartArrives(u)
    \/ \E u \in Users, env \in Envs(TextPadded) : AnswerArrives(u, env)
    \/ Tick

(* The process runs and the next answer of u is admitted and handled. *)
CanAnswer(u) == ~crashed /\ Bounded(u, TextPadded) /\ Admitted(u)

(* Strong fairness of the handling of an admitted answer with successful     *)
(* collaborators, its enabling condition written as the state predicate      *)
(* CanAnswer (an admitted update changes the rate limiter's list, so the     *)
(* step is never a stuttering one).                                          *)
SpecLive ==
    /\ Init
    /\ [][NextLive]_vars
    /\ WF_vars(Tick)
    /\ \A u \in Users :
          []<>CanAnswer(u) => []<><<Admitted(u) /\ AnswerArrives(u, AllOK)>>_vars

CompletedAll(u) ==
    /\ Completed(u)
    /\ sessions[u][1].Result # <<>>
    /\ Len(sessions[u][1].Result[1].Blocks) = GetTotalBlocks(cfg)

(* The behaviour has reached the bounds of the model. *)
Exhausted(u) ==
    \/ ~Bounded(u, TextPadded)
    \/ ~Admitted(u) /\ now + RateWindow > MaxTime

(* C35: an interview in progress whose user keeps sending valid answers, the *)
(* failed summaries and result writes being followed by attempts that        *)
(* succeed, reaches Completed with one BlockResult per configured block.     *)
C35_AnswersLeadToCompleted ==
    \A u \in Users : InProgress(u) ~> (CompletedAll(u) \/ Exhausted(u))

----------------------------------------------------------------------------
(* C36: the extraction task started by the completion of interview X works   *)
(* on the result of X and files the profile under X, whatever the user has   *)
(* sent since: when the task runs, the result it reads is the one of X, and  *)
(* no cache entry other than that of X changes.                              *)
C36_TaskKeepsItsInterview ==
    [][\A u \in Users : \A i \in DOMAIN tasks[u] :
          (tasks[u][i].running /\ ~tasks'[u][i].running)
          => /\ sessions[u][1].Result # <<>>
             /\ sessions[u][1].Result[1].InterviewID = tasks[u][i].id
             /\ \A k \in DOMAIN cache :
                   k # tasks[u][i].id => cache'[k] = cache[k]]_vars

----------------------------------------------------------------------------
(* C37: while an interview is in progress, the result holds as many          *)
(* BlockResults as there are cumulative summaries, that is CurrentBlock - 1  *)
(* of them, with the BlockIDs of the first CurrentBlock - 1 blocks in order. *)
(* Stated for the states in which no handler is in the middle of its work.   *)
C37_BlocksMatchProgress ==
    \A u \in Users :
        (InProgress(u) /\ \A g \in Goroutines : ~Running(g))
        => LET s == sessions[u][1]
           IN  /\ s.Result # <<>>
               /\ Len(s.Result[1].Blocks) = Len(s.CumulativeSummaries)
               /\ Len(s.Result[1].Blocks) = s.CurrentBlock - 1
               /\ \A b \in 1..Len(s.Result[1].Blocks) :
                     /\ b <= Len(cfg.Blocks)
                     /\ s.Result[1].Blocks[b].BlockID = cfg.Blocks[b].ID

----------------------------------------------------------------------------
(* The text is not valid in the state of the session s. *)
Invalid(text, s) ==
    \/ ~HasPrefixSlash(TrimSpace(text)) /\ s.State # "waiting_answer"
    \/ text = CmdStart /\ s.State \in {"interview", "waiting_answer"}
    \/ text = CmdStop /\ s.State = "idle"
    \/ text \in {CmdGetProfile, CmdGetSummary} /\ s.State # "completed"

Rejection(text) ==
    CASE text = CmdStart      -> "already_running"
      [] text = CmdStop       -> "not_running"
      [] text = CmdGetProfile -> "profile_unavailable"
      [] text = CmdGetSummary -> "summary_unavailable"
      [] OTHER                -> "not_waiting"

(* C38: an admitted update that is not valid in the state of the session     *)
(* (plain text outside waiting_answer, /start during an interview, /stop in  *)
(* idle, /getprofile or /getsummary outside completed) is answered with its  *)
(* rejection message only and leaves every field of the session as it was.   *)
C38_InvalidEventChangesNothing ==
    [][\A u \in Users, text \in SweepTexts : \A env \in Envs(text) :
          (/\ Admitted(u)
           /\ sessions[u] # <<>>
           /\ Invalid(text, sessions[u][1])
           /\ HandleUpdateSwept(u, text, env))
          => /\ gor'[1].out = <<Rejection(text)>>
             /\ sessions'[u] = sessions[u]]_vars

C38_Witness ==
    \E u \in Users :
        /\ gor[1].user = u
        /\ gor[1].out = <<"not_running">>
        /\ sessions[u] # <<>>
        /\ sessions[u][1].State = "idle"
        /\ sessions[u][1].LastActivity < now

----------------------------------------------------------------------------
(* C39: over the iterations of the fill loop of one run the set of missing   *)
(* fields never grows: a schema field that is non-null in the record before  *)
(* an iteration is non-null after it, and the recomputed list of missing     *)
(* fields is within the previous one.                                        *)
C39_MissingNeverGrows ==
    [][\A resp \in Responses :
          (xrun.pc = "fill" /\ GeneratorReturns(resp))
          => /\ Unfilled(xrun'.formatted.kv) \subseteq Unfilled(xrun.formatted.kv)
             /\ xrun'.missing \subseteq xrun.missing]_vars

C39_Witness ==
    /\ xrun.attempts = MaxFillAttempts
    /\ xrun.missing = {"f2"}
    /\ DOMAIN xrun.formatted.kv = {"f1", "f2"}
    /\ xrun.formatted.kv["f1"] = 2
    /\ xrun.formatted.kv["f2"] = Null

----------------------------------------------------------------------------
(* The update sets LastActivity of the existing session s: a /start that     *)
(* begins an interview, a reset, an accepted answer.                         *)
Refreshing(text, s) ==
    \/ text = CmdStart /\ s.State \notin {"interview", "waiting_answer"}
    \/ text = CmdRestart
    \/ text = CmdStop /\ s.State # "idle"
    \/ /\ ~HasPrefixSlash(TrimSpace(text))
       /\ s.State = "waiting_answer"
       /\ ValidateUserInput(TrimSpace(text)) = "ok"

Stale(u) == sessions[u] # <<>> /\ sessions[u][1].LastActivity < now - SessionTTL

(* C40: LastActivity of a session is set at its creation and by a /start     *)
(* that begins an interview, a reset and an accepted answer, and by nothing  *)
(* else: /status, /help, /getprofile, /getsummary, unknown commands, refused  *)
(* commands, rejected answers and rate-limited updates leave it as it was,   *)
(* so that the sweep removes the session once it is more than 24h old.       *)
C40_LastActivityRefreshedOnlyByProgress ==
    [][/\ \A u \in Users, text \in SweepTexts : \A env \in Envs(text) :
            HandleUpdateSwept(u, text, env)
            => (IF sessions[u] = <<>>
                THEN sessions'[u] # <<>> => sessions'[u][1].LastActivity = now
                ELSE sessions'[u][1].LastActivity =
                        (IF Admitted(u) /\ Refreshing(text, sessions[u][1])
                         THEN now
                         ELSE sessions[u][1].LastActivity))
        /\ \A v \in Users :
            (Stale(v) /\ CleanupInactiveSessions) => sessions'[v] = <<>>]_vars

C40_Witness ==
    \E u \in Users :
        /\ gor[1].user = u
        /\ gor[1].out = <<"help">>
        /\ Stale(u)
        /\ sessions[u][1].State = "waiting_answer"

=============================================================================
